---- MODULE Spec2Model ----
(***************************************************************************)
(* Direction-of-arrival analysis of src/analysis/doa.py:                   *)
(* DOADetector.process_audio slides a window over the four microphone      *)
(* channels of a recording, gates each window on its energy, estimates an  *)
(* angle per window with DOADetector._calculate_doa and prints one line    *)
(* per analysed window.                                                    *)
(*                                                                         *)
(* Numbers.  Samples are integers in units of 1e-3, so a window's energy   *)
(* is an integer in units of 1e-6.  Angles are integers in millidegrees.   *)
(* A quotient the code computes in floating point (a pair's confidence,    *)
(* the weighted mean angle, the mean confidence) is kept exactly, as a     *)
(* numerator and a denominator.  The overlap is given in quarters, so      *)
(* that window_size * (1 - overlap) is exact in binary floating point.     *)
(***************************************************************************)
EXTENDS Integers, Sequences, FiniteSets

VARIABLES
    window_size,    \* process_audio's argument window_size
    overlapQ,       \* process_audio's argument overlap, in quarters
    sample_rate,    \* self.sample_rate, read from the file
    mic_data,       \* audio_data[:, 2:6]: a sequence of frames of 4 samples
    pc,             \* "start", "loop", "done" or "error"
    hop_size,       \* hop_size (line 42)
    num_windows,    \* num_windows (line 43)
    i,              \* the loop variable of line 50
    sliced,         \* the windows sliced so far (line 53), in order
    out,            \* the lines printed by line 70, as records
    err             \* the exception that ended the run, "" if none

vars == <<window_size, overlapQ, sample_rate, mic_data, pc, hop_size,
          num_windows, i, sliced, out, err>>

----------------------------------------------------------------------------
(* Bounds of the model and constants of the program.                       *)

MaxSamples == 4

RadiusMm == 32
SoundSpeed == 343
EnergyThreshold == 1
FullCircle == 360000
NumMics == 4

Mics == 0 .. (NumMics - 1)

----------------------------------------------------------------------------
(* Integer helpers for Python's arithmetic.                                *)

Abs(x) == IF x < 0 THEN 0 - x ELSE x

\* Python's a // b: the floor of a / b, for either sign of b (b # 0).
FloorDiv(a, b) == IF b > 0 THEN a \div b ELSE (0 - a) \div (0 - b)

\* Python's int(n / d) for d > 0: truncation towards zero.
Trunc(n, d) == IF n >= 0 THEN n \div d ELSE 0 - ((0 - n) \div d)

\* Python's x % m on a non-negative modulus: a result in 0 .. m-1.
PyMod(x, m) == x % m

\* n / d rounded to the nearest integer for d > 0, halves going up.
Round(n, d) == (2 * n + d) \div (2 * d)

RECURSIVE SumTo(_, _)
SumTo(f, n) == IF n < 0 THEN 0 ELSE f[n] + SumTo(f, n - 1)

RECURSIVE MaxTo(_, _)
MaxTo(f, n) == IF n = 0 THEN f[0]
               ELSE LET m == MaxTo(f, n - 1) IN IF f[n] > m THEN f[n] ELSE m

----------------------------------------------------------------------------
(* Slicing and the energy gate (process_audio, lines 51-62).               *)

\* The index a Python slice bound k denotes in a sequence of n elements.
SliceIdx(k, n) == IF k < 0 THEN (IF k + n < 0 THEN 0 ELSE k + n)
                  ELSE (IF k > n THEN n ELSE k)

\* mic_data[start:end]: a sequence, empty when the bounds cross.
PySlice(s, start, end) ==
    LET lo == SliceIdx(start, Len(s))
        hi == SliceIdx(end, Len(s))
    IN IF hi > lo THEN SubSeq(s, lo + 1, hi) ELSE << >>

\* window[:, mic]: one channel of a window, indexed from 0.
Channel(window, mic) == [l \in 0 .. (Len(window) - 1) |-> window[l + 1][mic]]

\* np.sum(window ** 2)
Energy(window) ==
    LET sq == [l \in 0 .. (Len(window) - 1) |->
                  SumTo([m \in Mics |-> window[l + 1][m] * window[l + 1][m]],
                        NumMics - 1)]
    IN SumTo(sq, Len(window) - 1)

----------------------------------------------------------------------------
(* scipy.signal.correlate(x, y, mode='full') and scipy.signal.find_peaks   *)
(* as _calculate_doa calls them (lines 91-100).                            *)

\* correlate(x, y, 'full')[k] = sum over l of x[l] * y[l - k + len - 1].
Correlate(x, y, len) ==
    [k \in 0 .. (2 * len - 2) |->
        SumTo([l \in 0 .. (len - 1) |->
                  IF l - k + len - 1 \in 0 .. (len - 1)
                  THEN x[l] * y[l - k + len - 1] ELSE 0],
              len - 1)]

\* The first index j >= from with j = n-1 or x[j] # v (the inner while loop
\* of scipy's _local_maxima_1d).
RECURSIVE Ahead(_, _, _, _)
Ahead(x, n, from, v) ==
    IF from < n - 1 /\ x[from] = v THEN Ahead(x, n, from + 1, v) ELSE from

\* scipy's _local_maxima_1d from index idx on: the midpoints of the strict
\* local maxima (plateaus included), never the first or the last sample.
RECURSIVE LocalMaximaFrom(_, _, _)
LocalMaximaFrom(x, n, idx) ==
    IF idx >= n - 1 THEN << >>
    ELSE IF x[idx - 1] < x[idx]
         THEN LET ahead == Ahead(x, n, idx + 1, x[idx])
              IN IF x[ahead] < x[idx]
                 THEN <<(idx + (ahead - 1)) \div 2>>
                          \o LocalMaximaFrom(x, n, ahead + 1)
                 ELSE LocalMaximaFrom(x, n, idx + 1)
         ELSE LocalMaximaFrom(x, n, idx + 1)

LocalMaxima(x, n) == LocalMaximaFrom(x, n, 1)

\* scipy's _select_by_peak_distance: peaks are visited from the highest
\* priority down (among equals the later one first, as the stable argsort
\* of a short array orders them); a peak still kept removes every peak
\* closer to it than distance.
RECURSIVE SelectFrom(_, _, _, _, _)
SelectFrom(peaks, x, distance, todo, keep) ==
    IF todo = {} THEN keep
    ELSE LET j == CHOOSE a \in todo : \A b \in todo :
                      \/ x[peaks[a]] > x[peaks[b]]
                      \/ (x[peaks[a]] = x[peaks[b]] /\ a >= b)
             near == {k \in DOMAIN peaks :
                         k # j /\ Abs(peaks[k] - peaks[j]) < distance}
         IN SelectFrom(peaks, x, distance, todo \ {j},
                       IF j \in keep THEN keep \ near ELSE keep)

RECURSIVE Filter(_, _, _)
Filter(peaks, keep, k) ==
    IF k > Len(peaks) THEN << >>
    ELSE (IF k \in keep THEN <<peaks[k]>> ELSE << >>) \o Filter(peaks, keep, k + 1)

\* The peaks _select_by_peak_distance keeps, in index order.
KeptPeaks(peaks, x, distance) ==
    Filter(peaks, SelectFrom(peaks, x, distance, DOMAIN peaks, DOMAIN peaks), 1)

\* find_peaks(x, distance=distance), for distance >= 1.
FindPeaks(x, n, distance) == KeptPeaks(LocalMaxima(x, n), x, distance)

\* peaks[np.argmax(correlation[peaks])]: the first of the highest peaks.
RECURSIVE ArgMaxFrom(_, _, _, _)
ArgMaxFrom(peaks, x, k, best) ==
    IF k > Len(peaks) THEN peaks[best]
    ELSE ArgMaxFrom(peaks, x, k + 1,
                    IF x[peaks[k]] > x[peaks[best]] THEN k ELSE best)

\* StrongestPeak without the argmax: the first peak found.
FirstPeak(peaks, x) == peaks[1]

StrongestPeak(peaks, x) == ArgMaxFrom(peaks, x, 2, 1)

----------------------------------------------------------------------------
(* DOADetector._calculate_doa (lines 75-133).                              *)

\* mic_pairs (line 81)
MicPairs == << <<0, 1>>, <<1, 2>>, <<2, 3>>, <<3, 0>> >>

\* max_delay = int(self.radius * 2 / self.sound_speed * self.sample_rate)
MaxDelay(sr) == (2 * RadiusMm * sr) \div (SoundSpeed * 1000)

\* math.asin raises ValueError outside [-1, 1]: the argument of line 109 is
\* delay * sound_speed / (sample_rate * 2 * radius).
AsinDomainError(delay, sr) ==
    Abs(delay) * SoundSpeed * 1000 > 2 * RadiusMm * sr

\* math.degrees(math.asin(r / 1024)) in millidegrees, for the arguments the
\* sample rates of the model produce: asin(686/1024) = 42.061 degrees (one
\* sample of delay at 8000 Hz) and asin(343/1024) = 19.570 degrees.
AsinMilliDeg(r) ==
    CASE r = 0 -> 0
      [] Abs(r) = 343 -> (IF r < 0 THEN 0 - 19570 ELSE 19570)
      [] Abs(r) = 686 -> (IF r < 0 THEN 0 - 42061 ELSE 42061)

\* pair_angle (line 109), in millidegrees.
PairAngle(delay, sr) ==
    AsinMilliDeg((delay * SoundSpeed * 1000 * 1024) \div (2 * RadiusMm * sr))

\* NormalisedAngle without the normalisation of line 117.
UnwrappedAngle(mic1, delay, sr) ==
    IF mic1 \in {0, 2}
    THEN 90000 * mic1 + PairAngle(delay, sr)
    ELSE 90000 * mic1 - PairAngle(delay, sr)

\* Lines 108-117: the pair's angle, normalised to 0 .. 360 degrees.
NormalisedAngle(mic1, delay, sr) ==
    IF mic1 \in {0, 2}
    THEN PyMod(90000 * mic1 + PairAngle(delay, sr), FullCircle)
    ELSE PyMod(90000 * mic1 - PairAngle(delay, sr), FullCircle)

\* Lines 96-101 for the peaks find_peaks returned: the strongest peak and its
\* delay relative to mid_point = n // 2; has is FALSE when there is no peak.
PeakOf(peaks, correlation, n) ==
    IF Len(peaks) = 0 THEN [has |-> FALSE, idx |-> 0, delay |-> 0]
    ELSE [has |-> TRUE, idx |-> StrongestPeak(peaks, correlation),
          delay |-> StrongestPeak(peaks, correlation) - (n \div 2)]

\* The peak search of lines 95-101 on a correlation of n values.
SelectedPeak(correlation, n, max_delay) ==
    PeakOf(FindPeaks(correlation, n, max_delay), correlation, n)

\* np.max(np.abs(correlation)) for a correlation of n values (line 121).
MaxAbs(correlation, n) ==
    MaxTo([k \in 0 .. (n - 1) |-> Abs(correlation[k])], n - 1)

\* Lines 104-124 for the selected peak sel: the pair's estimate, or has =
\* FALSE where the code continues (lines 97 and 105).  The confidence of
\* line 121 is peak / maxabs.  domain is TRUE where math.asin would raise.
EstimateAt(sel, correlation, n, mic1, sr) ==
    IF ~sel.has \/ Abs(sel.delay) > MaxDelay(sr)
    THEN [has |-> FALSE, domain |-> FALSE, delay |-> 0, angle |-> 0,
          peak |-> 0, maxabs |-> 1]
    ELSE IF AsinDomainError(sel.delay, sr)
    THEN [has |-> FALSE, domain |-> TRUE, delay |-> 0, angle |-> 0,
          peak |-> 0, maxabs |-> 1]
    ELSE [has |-> TRUE, domain |-> FALSE, delay |-> sel.delay,
          angle |-> NormalisedAngle(mic1, sel.delay, sr),
          peak |-> Abs(correlation[sel.idx]),
          maxabs |-> MaxAbs(correlation, n)]

\* One iteration of the loop of line 89 on the pair's correlation.
EstimateFrom(correlation, n, mic1, sr) ==
    EstimateAt(SelectedPeak(correlation, n, MaxDelay(sr)), correlation, n, mic1, sr)

\* One iteration of the loop of line 89 (for max_delay >= 1).
PairEstimate(window, mic1, mic2, sr) ==
    EstimateFrom(Correlate(Channel(window, mic1), Channel(window, mic2),
                           Len(window)),
                 2 * Len(window) - 1, mic1, sr)

\* The four iterations, in the order of mic_pairs.
PairEstimates(window, sr) ==
    [p \in 1 .. Len(MicPairs) |->
        PairEstimate(window, MicPairs[p][1], MicPairs[p][2], sr)]

RECURSIVE ProdMaxabs(_, _)
ProdMaxabs(ests, k) ==
    IF k = 0 THEN 1 ELSE ests[k].maxabs * ProdMaxabs(ests, k - 1)

\* The confidences of the contributing pairs over the common denominator
\* all (the product of the pairs' maxabs): the weights of line 130.
Weights(ests, all) ==
    [p \in 0 .. (Len(ests) - 1) |->
        IF ests[p + 1].has
        THEN ests[p + 1].peak * (all \div ests[p + 1].maxabs) ELSE 0]

Count(ests) == Cardinality({p \in DOMAIN ests : ests[p].has})

DoaResult(name, an, ad, cn, cd, ests) ==
    [exc |-> name, angleNum |-> an, angleDen |-> ad,
     confNum |-> cn, confDen |-> cd, pairs |-> ests]

\* Lines 126-133 for the estimates of the pairs and their weights:
\* np.average raises ZeroDivisionError when the weights sum to zero.
Fuse(ests, weight, all) ==
    IF Count(ests) = 0 THEN DoaResult("", 0, 1, 0, 1, ests)
    ELSE IF SumTo(weight, Len(ests) - 1) = 0
    THEN DoaResult("ZeroDivisionError", 0, 1, 0, 1, ests)
    ELSE DoaResult("",
                   SumTo([p \in 0 .. (Len(ests) - 1) |->
                             ests[p + 1].angle * weight[p]], Len(ests) - 1),
                   SumTo(weight, Len(ests) - 1),
                   SumTo(weight, Len(ests) - 1),
                   Count(ests) * all, ests)

FuseEstimates(ests) ==
    IF \E p \in DOMAIN ests : ests[p].domain
    THEN DoaResult("ValueError", 0, 1, 0, 1, ests)
    ELSE Fuse(ests, Weights(ests, ProdMaxabs(ests, Len(ests))),
              ProdMaxabs(ests, Len(ests)))

\* _calculate_doa(window): exc names the exception it raises ("" if none);
\* otherwise the returned angle is angleNum / angleDen millidegrees and the
\* returned confidence confNum / confDen.  find_peaks raises ValueError for
\* a distance below 1 (line 95), on the first pair.
CalculateDoa(window, sr) ==
    IF MaxDelay(sr) < 1 THEN DoaResult("ValueError", 0, 1, 0, 1, << >>)
    ELSE FuseEstimates(PairEstimates(window, sr))

\* GetDirection with each quadrant closed at its upper end instead of its
\* lower end.
GetDirectionUpperClosed(num, den) ==
    IF 45000 * den < num /\ num <= 135000 * den THEN "East"
    ELSE IF 135000 * den < num /\ num <= 225000 * den THEN "South"
    ELSE IF 225000 * den < num /\ num <= 315000 * den THEN "West"
    ELSE "North"

\* _get_direction(angle) for the angle num / den millidegrees (den > 0).
GetDirection(num, den) ==
    IF 45000 * den <= num /\ num < 135000 * den THEN "East"
    ELSE IF 135000 * den <= num /\ num < 225000 * den THEN "South"
    ELSE IF 225000 * den <= num /\ num < 315000 * den THEN "West"
    ELSE "North"

\* Line 67: the direction printed for a result of _calculate_doa.
Direction(doa) ==
    IF 10 * doa.confNum > 3 * doa.confDen
    THEN GetDirection(doa.angleNum, doa.angleDen) ELSE "?"

----------------------------------------------------------------------------
(* The inputs of a run: the arguments of process_audio and the recording.  *)

WindowSizes == {3, 4}
OverlapQs == {2, 3, 6}
SampleRates == {4000, 8000}

Click(mic, a) == [m \in Mics |-> IF m = mic THEN a ELSE 0]
Common(a) == [m \in Mics |-> a]

\* A frame is silent, a click that reaches the four microphones at once, or
\* a click of either polarity on microphone 0 or on microphone 1.
Frames == {Common(0), Common(1)} \cup {Click(m, a) : m \in {0, 1}, a \in {-1, 1}}

----------------------------------------------------------------------------
(* DOADetector.process_audio (lines 18-73) as called by main (167-177).    *)

Init ==
    /\ window_size \in WindowSizes
    /\ overlapQ \in OverlapQs
    /\ sample_rate \in SampleRates
    /\ \E n \in 0 .. MaxSamples : mic_data \in [1 .. n -> Frames]
    /\ pc = "start"
    /\ hop_size = 0
    /\ num_windows = 0
    /\ i = 0
    /\ sliced = << >>
    /\ out = << >>
    /\ err = ""

\* HopSize with round() in place of int().
HopSizeRounded(ws, q) == Round(ws * (4 - q), 4)

\* hop_size = int(window_size * (1 - overlap)) (line 42)
HopSize(ws, q) == Trunc(ws * (4 - q), 4)

\* num_windows (line 43), for hop # 0
NumWindows(len, ws, hop) == FloorDiv(len - ws, hop) + 1

\* Lines 42-43.  Line 43 divides by hop_size: a hop of 0 raises
\* ZeroDivisionError, which main catches (lines 175-177).
Start ==
    /\ pc = "start"
    /\ hop_size' = HopSize(window_size, overlapQ)
    /\ IF hop_size' = 0
       THEN /\ pc' = "error"
            /\ err' = "ZeroDivisionError"
            /\ UNCHANGED num_windows
       ELSE /\ pc' = "loop"
            /\ num_windows' = NumWindows(Len(mic_data), window_size, hop_size')
            /\ UNCHANGED err
    /\ UNCHANGED <<window_size, overlapQ, sample_rate, mic_data, i, sliced, out>>

\* Lines 51-53 for the loop index i.
WindowStart == i * hop_size
WindowEnd == WindowStart + window_size
Window == PySlice(mic_data, WindowStart, WindowEnd)

\* What the loop did with window i: its bounds, the number of frames the
\* slice holds and whether _calculate_doa was called on it.
Slice(called) ==
    [index |-> i, start |-> WindowStart, end |-> WindowEnd,
     length |-> Len(Window), analysed |-> called]

InLoop == pc = "loop" /\ i < num_windows

\* PassesGate without the threshold: every window is analysed.
PassesGateAlways(window) == Energy(window) >= 0

\* The condition of line 62.
PassesGate(window) == Energy(window) > EnergyThreshold

\* Line 62 false: the window is skipped and the loop goes on.
SkipWindow ==
    /\ InLoop
    /\ ~PassesGate(Window)
    /\ i' = i + 1
    /\ sliced' = Append(sliced, Slice(FALSE))
    /\ UNCHANGED <<window_size, overlapQ, sample_rate, mic_data, pc, hop_size,
                   num_windows, out, err>>

\* The line printed at line 70: the timestamp start / sample_rate, the angle,
\* the confidence and the direction.  window and pairs are not printed: they
\* record the loop index that printed the line and what the loop of line 89
\* found for each pair.
Estimate(doa) ==
    [timestampNum |-> WindowStart, timestampDen |-> sample_rate,
     angleNum |-> doa.angleNum, angleDen |-> doa.angleDen,
     confNum |-> doa.confNum, confDen |-> doa.confDen,
     direction |-> Direction(doa), window |-> i, pairs |-> doa.pairs]

\* Lines 62-70: the window is analysed and its line printed.
EmitWindow ==
    /\ InLoop
    /\ PassesGate(Window)
    /\ LET doa == CalculateDoa(Window, sample_rate)
       IN /\ doa.exc = ""
          /\ out' = Append(out, Estimate(doa))
    /\ i' = i + 1
    /\ sliced' = Append(sliced, Slice(TRUE))
    /\ UNCHANGED <<window_size, overlapQ, sample_rate, mic_data, pc, hop_size,
                   num_windows, err>>

\* Line 64 raises: the exception leaves process_audio and main reports it.
AbortWindow ==
    /\ InLoop
    /\ PassesGate(Window)
    /\ LET doa == CalculateDoa(Window, sample_rate)
       IN /\ doa.exc # ""
          /\ err' = doa.exc
    /\ pc' = "error"
    /\ sliced' = Append(sliced, Slice(TRUE))
    /\ UNCHANGED <<window_size, overlapQ, sample_rate, mic_data, hop_size,
                   num_windows, i, out>>

\* range(num_windows) is exhausted: process_audio returns.
Finish ==
    /\ pc = "loop"
    /\ ~(i < num_windows)
    /\ pc' = "done"
    /\ UNCHANGED <<window_size, overlapQ, sample_rate, mic_data, hop_size,
                   num_windows, i, sliced, out, err>>

Next == Start \/ SkipWindow \/ EmitWindow \/ AbortWindow \/ Finish

Spec == Init /\ [][Next]_vars

----------------------------------------------------------------------------
(* What the properties below speak of.                                     *)

NumSamples == Len(mic_data)

\* The frames window k of the run held (the slice of line 53).
WindowOf(k) == PySlice(mic_data, sliced[k].start, sliced[k].end)

\* The frames the window of an emitted estimate held.
WindowOfEstimate(e) ==
    PySlice(mic_data, e.timestampNum, e.timestampNum + window_size)

\* windowLength > 0 and overlapFraction in [0, 1)
ValidArguments == window_size > 0 /\ overlapQ \in 0 .. 3

Emitted(index) == \E k \in 1 .. Len(out) : out[k].window = index

----------------------------------------------------------------------------
\* C1: every estimate emitted by process_audio has an angle in [0, 360)
\* degrees and a confidence in [0, 1], whatever the arguments and the
\* recording, for every window of the run, also where some or all pairs
\* contribute no estimate.
C1_EstimatesInRange ==
    \A k \in 1 .. Len(out) :
        /\ out[k].angleDen > 0
        /\ 0 <= out[k].angleNum
        /\ out[k].angleNum < 360000 * out[k].angleDen
        /\ out[k].confDen > 0
        /\ 0 <= out[k].confNum
        /\ out[k].confNum <= out[k].confDen

\* A run with valid arguments that has emitted one estimate no pair
\* contributed to and one that only some pairs contributed to, with an
\* angle beyond 180 degrees.
C1_Witness ==
    /\ ValidArguments
    /\ \E j, k \in 1 .. Len(out) :
          /\ Count(out[j].pairs) = 0
          /\ Count(out[k].pairs) \in 1 .. 3
          /\ out[k].angleNum > 180000 * out[k].angleDen

\* C2: a window whose energy is below the threshold of line 62 (an all-zero
\* window in particular) is skipped: _calculate_doa is not called on it, no
\* estimate is emitted for it, and the loop goes on to the next window.
C2_EnergyGate ==
    \A k \in 1 .. Len(sliced) :
        Energy(WindowOf(k)) < EnergyThreshold =>
            /\ ~sliced[k].analysed
            /\ ~Emitted(sliced[k].index)
            /\ i > sliced[k].index
            /\ pc = "error" => k < Len(sliced)

\* An all-zero window of full length was skipped and a later window of the
\* same run was analysed and its estimate emitted.
C2_Witness ==
    \E k \in 1 .. Len(sliced) :
        /\ sliced[k].length = window_size
        /\ Energy(WindowOf(k)) = 0
        /\ \E j \in 1 .. Len(out) : out[j].window > sliced[k].index

\* C3: when a window passes the energy gate and none of the four pairs
\* yields an estimate, nothing is emitted for the window: every emitted
\* estimate has at least one contributing pair.
C3_NothingWithoutPairs ==
    \A k \in 1 .. Len(out) : Count(out[k].pairs) >= 1

\* The lags within max_delay of the centre at which the correlation has a
\* local maximum.
AdmissiblePeaks(correlation, n, max_delay) ==
    {d \in (0 - max_delay) .. max_delay :
        \E k \in DOMAIN LocalMaxima(correlation, n) :
            LocalMaxima(correlation, n)[k] = d + (n \div 2)}

\* Among lags, the one of highest correlation; among equals the one of
\* smallest absolute value, then the smaller one.
BestLag(lags, correlation, n) ==
    CHOOSE d \in lags : \A e \in lags :
        \/ correlation[d + (n \div 2)] > correlation[e + (n \div 2)]
        \/ /\ correlation[d + (n \div 2)] = correlation[e + (n \div 2)]
           /\ (Abs(d) < Abs(e) \/ (Abs(d) = Abs(e) /\ d <= e))

\* What C4 says of one pair of an analysed window: the pair has an estimate
\* exactly when an admissible local maximum exists, at the best such lag.
PairChoosesAdmissibleBest(est, correlation, n, max_delay) ==
    /\ est.has = (AdmissiblePeaks(correlation, n, max_delay) # {})
    /\ est.has =>
          est.delay = BestLag(AdmissiblePeaks(correlation, n, max_delay),
                              correlation, n)

\* C4: for every pair of every analysed window the selected lag is chosen
\* among the admissible lags only (|lag| <= max_delay): it is the admissible
\* local maximum of highest correlation, ties going to the smallest absolute
\* lag and then to the smaller lag, and correlation values at inadmissible
\* lags never influence the choice, so that a pair with an admissible local
\* maximum always yields an estimate.
C4_AdmissibleLagChosen ==
    \A k \in 1 .. Len(out) : \A p \in 1 .. Len(MicPairs) :
        PairChoosesAdmissibleBest(
            out[k].pairs[p],
            Correlate(Channel(WindowOfEstimate(out[k]), MicPairs[p][1]),
                      Channel(WindowOfEstimate(out[k]), MicPairs[p][2]),
                      Len(WindowOfEstimate(out[k]))),
            2 * Len(WindowOfEstimate(out[k])) - 1,
            MaxDelay(sample_rate))

\* C5: over a whole run the estimates are emitted in non-decreasing
\* timestamp order, at most one per window, and each timestamp is the start
\* sample of its window over the sample rate.
C5_TimestampOrder ==
    /\ \A j, k \in 1 .. Len(out) :
          j < k =>
             /\ out[j].window # out[k].window
             /\ out[j].timestampNum * out[k].timestampDen
                    <= out[k].timestampNum * out[j].timestampDen
    /\ \A k \in 1 .. Len(out) :
          \E w \in 1 .. Len(sliced) :
             /\ sliced[w].index = out[k].window
             /\ out[k].timestampNum = sliced[w].start
             /\ out[k].timestampDen = sample_rate

\* The windows k = 0 .. K-1 of a WindowSource of hop size hop (>= 1) over
\* the recording, K = floor((numSamples - windowLength) / hop) + 1, none if
\* the recording is shorter than a window.
WindowCount(hop) ==
    IF NumSamples < window_size THEN 0
    ELSE ((NumSamples - window_size) \div hop) + 1

\* The run is working through exactly the windows 0 .. K-1 of hop size hop:
\* the windows sliced so far are the first ones of that sequence, in order,
\* each of windowLength samples inside the recording; a run that has
\* returned has sliced all K; no exception is raised before the first
\* window, and none at all for a recording shorter than a window.
WorksThroughWindows(hop) ==
    /\ Len(sliced) <= WindowCount(hop)
    /\ \A k \in 1 .. Len(sliced) :
          /\ sliced[k].index = k - 1
          /\ sliced[k].start = (k - 1) * hop
          /\ sliced[k].end = sliced[k].start + window_size
          /\ sliced[k].end <= NumSamples
          /\ sliced[k].length = window_size
    /\ pc = "done" => Len(sliced) = WindowCount(hop)
    /\ pc = "error" => sliced # << >>
    /\ NumSamples < window_size => (out = << >> /\ pc # "error")

InvalidConfiguration ==
    \/ window_size <= 0
    \/ overlapQ \notin 0 .. 3
    \/ HopSize(window_size, overlapQ) <= 0

\* C7: with a structurally invalid configuration the run fails at once with
\* an error reported to the caller: no window is sliced or processed, no
\* estimate is emitted and the run does not return normally.  (Any
\* exception counts here as the reported error.)
C7_InvalidConfigurationFails ==
    InvalidConfiguration =>
        /\ sliced = << >>
        /\ out = << >>
        /\ pc # "done"

\* The configuration is valid: windowLength > 0, overlapFraction in [0, 1),
\* a hop size of at least 1, and windows of at least 2 * max_delay + 1
\* samples.
ValidConfiguration ==
    /\ ValidArguments
    /\ HopSize(window_size, overlapQ) >= 1
    /\ window_size >= 2 * MaxDelay(sample_rate) + 1

\* C8: with a valid configuration the driver never aborts because of the
\* contents of a window: no exception leaves the loop of line 50.
C8_NoWindowAborts ==
    ValidConfiguration => ~(pc = "error" /\ sliced # << >>)

\* The label C9 gives an estimate of confidence cn / cd and angle an / ad
\* millidegrees.
LabelOf(an, ad, cn, cd) ==
    IF 10 * cn <= 3 * cd THEN "?"
    ELSE IF 45000 * ad <= an /\ an < 135000 * ad THEN "East"
    ELSE IF 135000 * ad <= an /\ an < 225000 * ad THEN "South"
    ELSE IF 225000 * ad <= an /\ an < 315000 * ad THEN "West"
    ELSE "North"

IdenticalChannels(window) ==
    \A l \in 1 .. Len(window) : \A m \in Mics : window[l][m] = window[l][0]

\* The windows C10 speaks of: an analysed window (so one that passed the
\* energy gate) of at least 2 * max_delay + 1 samples whose four channels
\* are identical.
IdenticalWindow(e) ==
    /\ IdenticalChannels(WindowOfEstimate(e))
    /\ Len(WindowOfEstimate(e)) >= 2 * MaxDelay(sample_rate) + 1

\* Every pair selected lag 0 with confidence 1, its angle is its base angle,
\* and the fused confidence is 1.
AllPairsAtLagZero(e) ==
    /\ \A p \in 1 .. Len(MicPairs) :
          /\ e.pairs[p].has
          /\ e.pairs[p].delay = 0
          /\ e.pairs[p].peak = e.pairs[p].maxabs
          /\ e.pairs[p].angle = 90000 * (p - 1)
    /\ e.confNum = e.confDen

====
